---------------------------- MODULE Spec2Model ----------------------------
(***************************************************************************)
(* Model of the Gmail retrieval layer of ai-distiller-mcp:                 *)
(*   server/gmail.py  GmailAPIClient (_authenticate, get_emails_by_date_   *)
(*                    range, _extract_email_body, _clean_html,             *)
(*                    _parse_email_data) and the GMailData validators,     *)
(*   server/utils.py  ensure_datetime.                                     *)
(*                                                                         *)
(* Strings are sequences of one-character strings (a weekday or month      *)
(* abbreviation such as "Mon" or "Jan" is kept as one element).            *)
(***************************************************************************)
EXTENDS Integers, Sequences, FiniteSets, TLC

VARIABLES
    \* ---- GmailAPIClient._clean_html
    html_content,      \* the argument
    clean_text,        \* the returned string, or NotCalled
    \* ---- GmailAPIClient._extract_email_body
    message_payload,   \* the 'payload' part tree of the argument
    extracted_body,    \* the returned string, or NotCalled
    \* ---- utils.ensure_datetime
    date_string,       \* the argument
    ensured,           \* the returned datetime, a raised ValueError, or NotCalled
    \* ---- GmailAPIClient.__init__ / _authenticate
    auth_pc,           \* "new" | "done" | "failed"
    token_file,        \* contents of token.json, or Absent
    credentials_file,  \* TRUE iff credentials.json exists
    provider_auth,     \* what the auth library will answer in this construction
    service,           \* the service handle (its credentials), or None
    auth_raised,       \* the exception __init__ ended with, or None
    auth_log,          \* the file and auth-library calls made, in order
    \* ---- GmailAPIClient.get_emails_by_date_range
    pc,                \* "idle" | "listing" | "loop" | "returned" | "raised"
    include_body,
    basic_data,
    results,           \* the provider's answer to the listing request, or None
    messages,          \* results.get('messages', [])
    idx,               \* number of listed messages already handled
    emails,            \* the list being built
    parsing_errors,
    requests,          \* the provider requests issued by this call, in order
    outcomes,          \* history: per handled message, the provider's reply to
                       \* the fetch, the tick, and what _parse_email_data did
    result,            \* the returned list, or None
    raised,            \* the exception the call ended with, or None
    now                \* wall clock, in ticks

cleanVars == <<html_content, clean_text>>
bodyVars  == <<message_payload, extracted_body>>
dateVars  == <<date_string, ensured>>
authVars  == <<auth_pc, token_file, credentials_file, provider_auth, service,
               auth_raised, auth_log>>
callVars  == <<pc, include_body, basic_data, results, messages, idx, emails,
               parsing_errors, requests, outcomes, result, raised, now>>
vars == <<cleanVars, bodyVars, dateVars, authVars, callVars>>

None      == [k |-> "None"]
NotCalled == [k |-> "NotCalled"]
Absent    == [k |-> "Absent"]

\* A call's outcome: a returned value or a raised exception.
Ret(v)   == [k |-> "ret", v |-> v]
Exc(exc) == [k |-> "raise", exc |-> exc]

-----------------------------------------------------------------------------
(* Strings *)

\* Longest generated input string of _clean_html.
MaxLen == 5

\* str.isspace() / the regex class \s, on the characters the model uses.
IsSpace(c) == c \in {" ", "\n", "\t"}

\* All sequences over S of length 0..n.
SeqsUpTo(S, n) == UNION {[1..k -> S] : k \in 0..n}

\* The function f with every value computed (f @@ f is f): the model checker
\* then evaluates each entry of a table once, not at every lookup.
Enumerated(f) == f @@ f

\* str.strip(): leading and trailing whitespace removed.
RECURSIVE LStrip(_)
LStrip(s) == IF s # <<>> /\ IsSpace(Head(s)) THEN LStrip(Tail(s)) ELSE s

RECURSIVE RStrip(_)
RStrip(s) ==
    IF s # <<>> /\ IsSpace(s[Len(s)]) THEN RStrip(SubSeq(s, 1, Len(s) - 1)) ELSE s

Strip(s) == LStrip(RStrip(s))

-----------------------------------------------------------------------------
(* GmailAPIClient._clean_html *)

\* Index of the first '>' at or after i, 0 if none.
RECURSIVE FirstGt(_, _)
FirstGt(s, i) ==
    IF i > Len(s) THEN 0 ELSE IF s[i] = ">" THEN i ELSE FirstGt(s, i + 1)

\* End of the match of <[^>]+> starting at i, 0 if it does not match there.
TagEnd(s, i) ==
    IF s[i] = "<" /\ i + 1 <= Len(s) /\ s[i + 1] # ">"
    THEN FirstGt(s, i + 2)
    ELSE 0

\* re.sub(r'<[^>]+>', '', s): leftmost non-overlapping matches removed.
RECURSIVE SubTags(_, _)
SubTags(s, i) ==
    IF i > Len(s) THEN <<>>
    ELSE IF TagEnd(s, i) # 0 THEN SubTags(s, TagEnd(s, i) + 1)
    ELSE <<s[i]>> \o SubTags(s, i + 1)

\* End of the whitespace run that starts at i (i - 1 if s[i] is no whitespace).
RECURSIVE SpaceRunEnd(_, _)
SpaceRunEnd(s, i) ==
    IF i <= Len(s) /\ IsSpace(s[i]) THEN SpaceRunEnd(s, i + 1) ELSE i - 1

\* Greatest j in lo..hi with s[j] = '\n', 0 if none.
RECURSIVE LastNewline(_, _, _)
LastNewline(s, lo, hi) ==
    IF hi < lo THEN 0 ELSE IF s[hi] = "\n" THEN hi ELSE LastNewline(s, lo, hi - 1)

\* End of the match of \n\s*\n starting at i (greedy \s*, backtracking to the
\* last newline of the whitespace run), 0 if it does not match there.
BlankEnd(s, i) ==
    IF s[i] = "\n" THEN LastNewline(s, i + 1, SpaceRunEnd(s, i + 1)) ELSE 0

\* re.sub(r'\n\s*\n', '\n\n', s)
RECURSIVE SubBlankLines(_, _)
SubBlankLines(s, i) ==
    IF i > Len(s) THEN <<>>
    ELSE IF BlankEnd(s, i) # 0
         THEN <<"\n", "\n">> \o SubBlankLines(s, BlankEnd(s, i) + 1)
    ELSE <<s[i]>> \o SubBlankLines(s, i + 1)

\* re.sub(r' +', ' ', s)
RECURSIVE SubSpaces(_, _)
SubSpaces(s, i) ==
    IF i > Len(s) THEN <<>>
    ELSE IF s[i] = " " /\ i > 1 /\ s[i - 1] = " " THEN SubSpaces(s, i + 1)
    ELSE <<s[i]>> \o SubSpaces(s, i + 1)

\* A cleaner that forgets the final strip().
CleanHtmlNoStrip(html) ==
    IF html = <<>> THEN <<>>
    ELSE SubSpaces(SubBlankLines(SubTags(html, 1), 1), 1)

CleanHtml(html) ==
    IF html = <<>> THEN <<>>
    ELSE Strip(SubSpaces(SubBlankLines(SubTags(html, 1), 1), 1))

HtmlAlphabet == {"<", ">", "a", " ", "\n"}

\* "<p>Hello</p>\n\n\n<b>World</b>"
HtmlExample ==
    <<"<", "p", ">", "H", "e", "l", "l", "o", "<", "/", "p", ">", "\n", "\n", "\n",
      "<", "b", ">", "W", "o", "r", "l", "d", "<", "/", "b", ">">>

HtmlInputs == SeqsUpTo(HtmlAlphabet, MaxLen) \cup {HtmlExample}

CleanIdle == html_content = <<>> /\ clean_text = NotCalled

CallCleanHtml ==
    /\ clean_text = NotCalled
    /\ clean_text' = Ret(CleanHtml(html_content))
    /\ UNCHANGED html_content

-----------------------------------------------------------------------------
(* GmailAPIClient._extract_email_body *)

\* A MIME part is [mimeType, data, parts]: data is part['body']['data'] ("" when
\* absent), parts is part['parts'] (<<>> when absent: the loop then runs no
\* iteration, as for an empty list).
Part(mimeType, data, parts) == [mimeType |-> mimeType, data |-> data, parts |-> parts]

\* message_details.get('payload', {}) of a message without payload.
EmptyPart == Part("", "", <<>>)

Chars_Hi     == <<"H", "i">>
Chars_HtmlHi == <<"<", "b", ">", "H", "i", "<", "/", "b", ">">>

\* base64.urlsafe_b64decode(data).decode('utf-8', errors='ignore') on the sample
\* data strings: "_w==" is the byte 0xFF, which the decoder drops; "QQ" has a
\* wrong padding, which raises binascii.Error.
B64Decode(data) ==
    CASE data = "SGk="         -> Ret(Chars_Hi)
      [] data = "PGI-SGk8L2I-" -> Ret(Chars_HtmlHi)
      [] data = "iVBORw=="     -> Ret(<<"P", "N", "G">>)
      [] data = "_w=="         -> Ret(<<>>)
      [] OTHER                 -> Exc("binascii.Error")

RECURSIVE GetBodyFromPart(_)
RECURSIVE FirstSubpartBody(_, _)

\* The loop over part['parts']: the first subpart whose body is non-empty wins;
\* an exception in a subpart ends the whole extraction.
FirstSubpartBody(parts, i) ==
    IF i > Len(parts) THEN Ret(<<>>)
    ELSE LET body == GetBodyFromPart(parts[i])
         IN  IF body.k = "raise" THEN body
             ELSE IF body.v # <<>> THEN body
             ELSE FirstSubpartBody(parts, i + 1)

\* get_body_from_part
GetBodyFromPart(part) ==
    LET sub == FirstSubpartBody(part.parts, 1)
    IN  IF sub.k = "raise" THEN sub
        ELSE IF sub.v # <<>> THEN sub
        ELSE IF part.mimeType = "text/plain" /\ part.data # ""
             THEN B64Decode(part.data)
        ELSE IF part.mimeType = "text/html" /\ part.data # ""
             THEN B64Decode(part.data)
        ELSE Ret(<<>>)

ExtractEmailBody(payload) == GetBodyFromPart(payload)

\* Most subparts of a generated multipart.
MaxParts == 2

LeafParts ==
    { Part("text/plain", "SGk=", <<>>),
      Part("text/plain", "", <<>>),
      Part("text/plain", "_w==", <<>>),
      Part("text/plain", "QQ", <<>>),
      Part("text/html", "PGI-SGk8L2I-", <<>>),
      Part("text/html", "", <<>>),
      Part("image/png", "iVBORw==", <<>>) }

\* Multiparts of one or two leaves: a plain text, an HTML text, or a plain
\* part without data.
InnerParts ==
    { Part("multipart/alternative", "", ps) :
        ps \in UNION {[1..n -> { Part("text/plain", "SGk=", <<>>),
                                 Part("text/html", "PGI-SGk8L2I-", <<>>),
                                 Part("text/plain", "", <<>>) }] : n \in 1..2} }

\* A payload: a leaf, or a part with up to MaxParts subparts, each a leaf or a
\* multipart of leaves; a part with subparts may carry data of its own.
Payloads ==
    {EmptyPart} \cup LeafParts \cup
    { Part(own[1], own[2], ps) :
        own \in {<<"multipart/mixed", "">>, <<"text/html", "PGI-SGk8L2I-">>},
        ps \in UNION {[1..n -> LeafParts \cup InnerParts] : n \in 1..MaxParts} }

CallExtractEmailBody ==
    /\ extracted_body = NotCalled
    /\ extracted_body' = ExtractEmailBody(message_payload)
    /\ UNCHANGED message_payload

-----------------------------------------------------------------------------
(* datetime: strptime, the wall clock, timedelta *)

Digits == <<"0", "1", "2", "3", "4", "5", "6", "7", "8", "9">>

IsDigit(c) == \E d \in 1..10 : Digits[d] = c

DigitVal(c) == (CHOOSE d \in 1..10 : Digits[d] = c) - 1

WeekdayNames == <<"Mon", "Tue", "Wed", "Thu", "Fri", "Sat", "Sun">>

MonthNames ==
    <<"Jan", "Feb", "Mar", "Apr", "May", "Jun", "Jul", "Aug", "Sep", "Oct", "Nov", "Dec">>

IndexIn(names, c) == IF \E n \in DOMAIN names : names[n] = c
                     THEN CHOOSE n \in DOMAIN names : names[n] = c
                     ELSE 0

NoTz == [k |-> "naive"]
Tz(sign, hh, mm) == [k |-> "tz", sign |-> sign, hh |-> hh, mm |-> mm]

DateTime(Y, m, d, H, M, S, us, tz) ==
    [year |-> Y, month |-> m, day |-> d, hour |-> H, minute |-> M, second |-> S,
     microsecond |-> us, tz |-> tz]

IsLeap(y) == (y % 4 = 0 /\ y % 100 # 0) \/ y % 400 = 0

DaysInMonth(y, m) ==
    IF m = 2 THEN (IF IsLeap(y) THEN 29 ELSE 28)
    ELSE IF m \in {4, 6, 9, 11} THEN 30 ELSE 31

\* The digits of s[pos .. pos+n-1] as a number, -1 when one of them is no digit
\* or the string ends before.
RECURSIVE NumAt(_, _, _)
NumAt(s, pos, n) ==
    IF n = 0 THEN 0
    ELSE IF pos + n - 1 > Len(s) \/ ~IsDigit(s[pos + n - 1]) THEN -1
    ELSE LET hi == NumAt(s, pos, n - 1)
         IN  IF hi < 0 THEN -1 ELSE 10 * hi + DigitVal(s[pos + n - 1])

\* Two digits at pos with a value in lo..hi: the two-digit alternatives of a
\* directive's regular expression.
TwoDigits(s, pos, lo, hi) ==
    IF NumAt(s, pos, 2) >= lo /\ NumAt(s, pos, 2) <= hi
    THEN <<[len |-> 2, val |-> NumAt(s, pos, 2)]>> ELSE <<>>

OneDigit(s, pos, lo) ==
    IF NumAt(s, pos, 1) >= lo
    THEN <<[len |-> 1, val |-> NumAt(s, pos, 1)]>> ELSE <<>>

\* %z: [+-]\d\d:?[0-5]\d, or Z (an offset's optional seconds are left out).
ZoneCandidates(s, pos) ==
    IF pos <= Len(s) /\ s[pos] = "Z" THEN <<[len |-> 1, val |-> Tz("+", 0, 0)]>>
    ELSE IF pos <= Len(s) /\ s[pos] \in {"+", "-"} /\ NumAt(s, pos + 1, 2) >= 0
    THEN LET colon == IF pos + 3 <= Len(s) /\ s[pos + 3] = ":" THEN 1 ELSE 0
             mm    == NumAt(s, pos + 3 + colon, 2)
         IN  IF mm >= 0 /\ mm <= 59
             THEN <<[len |-> 5 + colon, val |-> Tz(s[pos], NumAt(s, pos + 1, 2), mm)]>>
             ELSE <<>>
    ELSE <<>>

\* The ways format element f matches s at pos, in the order the regular
\* expression of _strptime tries them: [len, val].  A blank of the format is
\* \s+ (greedy); any other literal matches itself.
Candidates(f, s, pos) ==
    CASE f = "%Y" -> IF NumAt(s, pos, 4) >= 0
                     THEN <<[len |-> 4, val |-> NumAt(s, pos, 4)]>> ELSE <<>>
      [] f = "%m" -> TwoDigits(s, pos, 1, 12) \o OneDigit(s, pos, 1)
      [] f = "%d" -> TwoDigits(s, pos, 1, 31) \o OneDigit(s, pos, 1) \o
                     (IF pos <= Len(s) /\ s[pos] = " " /\ NumAt(s, pos + 1, 1) >= 1
                      THEN <<[len |-> 2, val |-> NumAt(s, pos + 1, 1)]>> ELSE <<>>)
      [] f = "%H" -> TwoDigits(s, pos, 0, 23) \o OneDigit(s, pos, 0)
      [] f = "%M" -> TwoDigits(s, pos, 0, 59) \o OneDigit(s, pos, 0)
      [] f = "%S" -> TwoDigits(s, pos, 0, 61) \o OneDigit(s, pos, 0)
      [] f = "%a" -> IF pos <= Len(s) /\ IndexIn(WeekdayNames, s[pos]) # 0
                     THEN <<[len |-> 1, val |-> IndexIn(WeekdayNames, s[pos])]>>
                     ELSE <<>>
      [] f = "%b" -> IF pos <= Len(s) /\ IndexIn(MonthNames, s[pos]) # 0
                     THEN <<[len |-> 1, val |-> IndexIn(MonthNames, s[pos])]>>
                     ELSE <<>>
      [] f = "%z" -> ZoneCandidates(s, pos)
      [] f = " "  -> LET n == SpaceRunEnd(s, pos) - pos + 1
                     IN  [i \in 1..n |-> [len |-> n + 1 - i, val |-> 0]]
      [] OTHER    -> IF pos <= Len(s) /\ s[pos] = f
                     THEN <<[len |-> 1, val |-> 0]>> ELSE <<>>

\* Every way the format, from element fi on, matches s at pos, as
\* [end, fields], in the order the regular expression's backtracking finds
\* them: the alternatives of an element in order, and for each the ways the
\* rest of the format can follow it.
RECURSIVE MatchesFrom(_, _, _, _, _)
RECURSIVE MatchesVia(_, _, _, _, _, _, _)

MatchesVia(cands, c, fmt, fi, s, pos, fields) ==
    IF c > Len(cands) THEN <<>>
    ELSE MatchesFrom(fmt, fi + 1, s, pos + cands[c].len,
                     IF fmt[fi] \in DOMAIN fields
                     THEN [fields EXCEPT ![fmt[fi]] = cands[c].val]
                     ELSE fields)
         \o MatchesVia(cands, c + 1, fmt, fi, s, pos, fields)

MatchesFrom(fmt, fi, s, pos, fields) ==
    IF fi > Len(fmt) THEN <<[end |-> pos, fields |-> fields]>>
    ELSE MatchesVia(Candidates(fmt[fi], s, pos), 1, fmt, fi, s, pos, fields)

\* _strptime's defaults for the fields a format does not set.
DefaultFields ==
    ("%Y" :> 1900) @@ ("%m" :> 1) @@ ("%d" :> 1) @@ ("%H" :> 0) @@ ("%M" :> 0) @@
    ("%S" :> 0) @@ ("%b" :> 0) @@ ("%z" :> NoTz)

\* datetime(...) of the matched fields; it refuses year 0, a day the month
\* does not have and a second above 59.
DateTimeOfFields(f) ==
    IF f["%Y"] < 1 \/ f["%S"] > 59
       \/ f["%d"] > DaysInMonth(f["%Y"], IF f["%b"] # 0 THEN f["%b"] ELSE f["%m"])
    THEN Exc("ValueError")
    ELSE Ret(DateTime(f["%Y"], IF f["%b"] # 0 THEN f["%b"] ELSE f["%m"], f["%d"],
                      f["%H"], f["%M"], f["%S"], 0, f["%z"]))

\* The first match is the regular expression's match; text after it is
\* "unconverted data".
StrptimeOfMatches(s, ms) ==
    IF ms = <<>> THEN Exc("ValueError")
    ELSE IF ms[1].end # Len(s) + 1 THEN Exc("ValueError")
    ELSE DateTimeOfFields(ms[1].fields)

\* datetime.strptime(s, fmt): Ret(datetime) or Exc("ValueError") (no match,
\* unconverted data, or a field datetime() refuses).
Strptime(s, fmt) == StrptimeOfMatches(s, MatchesFrom(fmt, 1, s, 1, DefaultFields))

\* Most ticks of the wall clock in a run.
MaxTicks == 1

\* datetime.now() at tick t: naive local time, 2024-03-01 00:00:0t, with a
\* non-zero microsecond at odd ticks.
ClockAt(t) == DateTime(2024, 3, 1, 0, 0, t, (t % 2) * 500000, NoTz)

\* datetime's proleptic Gregorian ordinal (date.toordinal and fromordinal).
DaysBeforeYear(y) == (y - 1) * 365 + (y - 1) \div 4 - (y - 1) \div 100 + (y - 1) \div 400

RECURSIVE DaysBeforeMonth(_, _)
DaysBeforeMonth(y, m) ==
    IF m = 1 THEN 0 ELSE DaysBeforeMonth(y, m - 1) + DaysInMonth(y, m - 1)

ToOrdinal(dt) == DaysBeforeYear(dt.year) + DaysBeforeMonth(dt.year, dt.month) + dt.day

OrdinalYear(n) ==
    CHOOSE y \in (n \div 366)..(n \div 365 + 1) :
        DaysBeforeYear(y) < n /\ n <= DaysBeforeYear(y + 1)

OrdinalMonth(y, n) ==
    CHOOSE m \in 1..12 :
        /\ DaysBeforeYear(y) + DaysBeforeMonth(y, m) < n
        /\ n <= DaysBeforeYear(y) + DaysBeforeMonth(y, m) + DaysInMonth(y, m)

\* dt - timedelta(days=n): the date moves, the time of day stays.
MinusDays(dt, n) ==
    LET o == ToOrdinal(dt) - n
        y == OrdinalYear(o)
        m == OrdinalMonth(y, o)
    IN  [dt EXCEPT !.year = y, !.month = m,
                   !.day = o - DaysBeforeYear(y) - DaysBeforeMonth(y, m)]

-----------------------------------------------------------------------------
(* utils.ensure_datetime *)

\* The formats list, each format split into its directives and literals.
Formats ==
    << <<"%Y", "-", "%m", "-", "%d">>,
       <<"%m", "/", "%d", "/", "%Y">>,
       <<"%d", "/", "%m", "/", "%Y">>,
       <<"%Y", "-", "%m", "-", "%d", " ", "%H", ":", "%M", ":", "%S">>,
       <<"%m", "/", "%d", "/", "%Y", " ", "%H", ":", "%M", ":", "%S">> >>

\* for fmt in formats: try strptime, continue on ValueError; raise after the loop.
RECURSIVE TryFormats(_, _, _)
TryFormats(formats, s, i) ==
    IF i > Len(formats) THEN Exc("ValueError")
    ELSE LET r == Strptime(s, formats[i])
         IN  IF r.k = "ret" THEN r ELSE TryFormats(formats, s, i + 1)

\* The match statement's keywords and their timedelta, in days.
KeywordDays ==
    (<<"today">> :> 0) @@ (<<"yesterday">> :> 1) @@ (<<"last_week">> :> 7) @@
    (<<"last_month">> :> 30) @@ (<<"last_year">> :> 365)

\* An ensure_datetime whose list has the day-first format before the
\* month-first one.
EnsureDatetimeDayFirst(s, t) ==
    IF s \in DOMAIN KeywordDays THEN Ret(MinusDays(ClockAt(t), KeywordDays[s]))
    ELSE TryFormats(<<Formats[1], Formats[3], Formats[2], Formats[4], Formats[5]>>, s, 1)

\* ensure_datetime(date_string) called at tick t of the wall clock.
EnsureDatetime(s, t) ==
    IF s \in DOMAIN KeywordDays THEN Ret(MinusDays(ClockAt(t), KeywordDays[s]))
    ELSE TryFormats(Formats, s, 1)

DateFields ==
    { <<"2", "0", "2", "4">>, <<"2", "0", "2", "3">>, <<"1">>, <<"0", "2">>,
      <<"1", "2">>, <<"1", "3">>, <<"2", "9">>, <<"3", "1">> }

TimeSuffixes ==
    { <<>>,
      <<" ", "1", "0", ":", "3", "0", ":", "0", "0">>,
      <<" ", " ", "1", ":", "2", ":", "3">>,
      <<" ", "2", "4", ":", "0", "0", ":", "0", "0">>,
      <<"T", "1", "0", ":", "3", "0", ":", "0", "0">> }

\* The keywords, three fields with two separators and an optional time, and a
\* few strings that are no date at all.
DateStrings ==
    DOMAIN KeywordDays \cup
    { <<>>, <<"Today">>, <<"n", "o", "t", "-", "a", "-", "d", "a", "t", "e">> } \cup
    { a \o <<s1>> \o b \o <<s2>> \o c \o t :
        a \in DateFields, b \in DateFields, c \in DateFields,
        s1 \in {"-", "/"}, s2 \in {"-", "/"}, t \in TimeSuffixes }

CallEnsureDatetime ==
    /\ ensured = NotCalled
    /\ ensured' = EnsureDatetime(date_string, now)
    /\ UNCHANGED date_string

-----------------------------------------------------------------------------
(* GmailAPIClient.__init__ and _authenticate *)

\* Most generations of credentials minted (by a refresh or a consent flow) in a run.
MaxGen == 2

\* google.oauth2 Credentials: gen tells one minted credential from another;
\* valid is "has a token and is not expired".
Creds(gen, token, expired, refresh_token) ==
    [gen |-> gen, token |-> token, expired |-> expired,
     refresh_token |-> refresh_token]

Valid(creds) == creds.token /\ ~creds.expired

\* creds.to_json(), the text written to the token file.
ToJson(creds) == [k |-> "json", fields |-> creds]

\* A token file that is no credentials JSON.
Corrupt == [k |-> "garbage"]

\* Credentials.from_authorized_user_file(token_file, SCOPES)
FromAuthorizedUserFile(text) ==
    IF text.k = "json" THEN Ret(text.fields) ELSE Exc("ValueError")

GenOf(text) == IF text.k = "json" THEN text.fields.gen ELSE 0

\* What the auth library answers during one construction: whether
\* creds.refresh() and flow.run_local_server() succeed, and whether the
\* consent flow hands out a refresh token.
AuthAnswers == [refresh_ok : BOOLEAN, flow_ok : BOOLEAN, flow_refresh_token : BOOLEAN]

AuthOutcome(text, svc, exc, log) ==
    [token_file |-> text, service |-> svc, raised |-> exc, log |-> log]

Service(creds) == [k |-> "service", credentials |-> creds]

\* The tail of _authenticate once creds are refreshed or created: save, build.
SaveAndBuild(creds, log) ==
    AuthOutcome(ToJson(creds), Service(creds), None,
                log \o <<"write token_file", "build">>)

\* The branch "if not creds or not creds.valid" of _authenticate; creds is None
\* (no token file) or Ret(credentials).
GetNewCredentials(text, creds, credentials, answers, log) ==
    IF creds # None /\ creds.v.expired /\ creds.v.refresh_token
    THEN IF answers.refresh_ok
         THEN SaveAndBuild(Creds(creds.v.gen + 1, TRUE, FALSE, TRUE),
                           log \o <<"refresh">>)
         ELSE AuthOutcome(text, None, Exc("RefreshError"), log \o <<"refresh">>)
    ELSE IF ~credentials
         THEN AuthOutcome(text, None, Exc("FileNotFoundError"),
                          log \o <<"exists credentials_file">>)
    ELSE IF answers.flow_ok
         THEN SaveAndBuild(Creds(GenOf(text) + 1, TRUE, FALSE, answers.flow_refresh_token),
                           log \o <<"exists credentials_file", "consent flow">>)
    ELSE AuthOutcome(text, None, Exc("FlowError"),
                     log \o <<"exists credentials_file", "consent flow">>)

\* An _authenticate that saves the credentials whether or not they are new.
AuthenticateAlwaysSaves(text, credentials, answers) ==
    LET log   == IF text = Absent THEN <<"exists token_file">>
                 ELSE <<"exists token_file", "read token_file">>
        creds == IF text = Absent THEN None ELSE FromAuthorizedUserFile(text)
    IN  IF creds # None /\ creds.k = "raise" THEN AuthOutcome(text, None, creds, log)
        ELSE IF creds = None \/ ~Valid(creds.v)
             THEN GetNewCredentials(text, creds, credentials, answers, log)
        ELSE SaveAndBuild(creds.v, log)

\* An _authenticate that looks for the credentials file before anything else.
AuthenticateChecksCredentialsFirst(text, credentials, answers) ==
    LET log   == IF text = Absent THEN <<"exists token_file">>
                 ELSE <<"exists token_file", "read token_file">>
        creds == IF text = Absent THEN None ELSE FromAuthorizedUserFile(text)
    IN  IF creds # None /\ creds.k = "raise" THEN AuthOutcome(text, None, creds, log)
        ELSE IF ~credentials
             THEN AuthOutcome(text, None, Exc("FileNotFoundError"),
                              log \o <<"exists credentials_file">>)
        ELSE IF creds = None \/ ~Valid(creds.v)
             THEN GetNewCredentials(text, creds, credentials, answers, log)
        ELSE AuthOutcome(text, Service(creds.v), None, log \o <<"build">>)

\* _authenticate on a token file holding text (or Absent), with or without a
\* credentials file: the token file afterwards, the service handle, the
\* exception raised, and the calls made.
Authenticate(text, credentials, answers) ==
    LET log   == IF text = Absent THEN <<"exists token_file">>
                 ELSE <<"exists token_file", "read token_file">>
        creds == IF text = Absent THEN None ELSE FromAuthorizedUserFile(text)
    IN  IF creds # None /\ creds.k = "raise" THEN AuthOutcome(text, None, creds, log)
        ELSE IF creds = None \/ ~Valid(creds.v)
             THEN GetNewCredentials(text, creds, credentials, answers, log)
        ELSE AuthOutcome(text, Service(creds.v), None, log \o <<"build">>)

\* GmailAPIClient(credentials_file=..., token_file=...)
Construct ==
    /\ auth_pc = "new"
    /\ LET out == Authenticate(token_file, credentials_file, provider_auth)
       IN  /\ token_file' = out.token_file
           /\ service' = out.service
           /\ auth_raised' = out.raised
           /\ auth_log' = out.log
           /\ auth_pc' = IF out.raised = None THEN "done" ELSE "failed"
    /\ UNCHANGED <<credentials_file, provider_auth>>

\* The token files a stored token file can have become by the next start: the
\* same, expired by then, or deleted.
LaterTokenFiles(text) ==
    {text, Absent} \cup
    (IF text.k = "json" THEN {ToJson([text.fields EXCEPT !.expired = TRUE])} ELSE {})

\* The process is started again: a new client is constructed on the files as
\* they are by then.
Restart ==
    /\ auth_pc \in {"done", "failed"}
    /\ GenOf(token_file) < MaxGen
    /\ auth_pc' = "new"
    /\ service' = None
    /\ auth_raised' = None
    /\ auth_log' = <<>>
    /\ token_file' \in LaterTokenFiles(token_file)
    /\ credentials_file' \in BOOLEAN
    /\ provider_auth' \in AuthAnswers

-----------------------------------------------------------------------------
(* datetime.isoformat, strftime, fromisoformat; the GMailData validators *)

\* n as w digits, zero-padded.
RECURSIVE Pad(_, _)
Pad(n, w) == IF w = 0 THEN <<>> ELSE Pad(n \div 10, w - 1) \o <<Digits[(n % 10) + 1]>>

\* n in decimal without padding.
RECURSIVE Decimal(_)
Decimal(n) == IF n < 10 THEN <<Digits[n + 1]>> ELSE Decimal(n \div 10) \o <<Digits[(n % 10) + 1]>>

\* dt.isoformat(): YYYY-MM-DDTHH:MM:SS[.ffffff][+HH:MM]
IsoFormat(dt) ==
    Pad(dt.year, 4) \o <<"-">> \o Pad(dt.month, 2) \o <<"-">> \o Pad(dt.day, 2) \o <<"T">> \o
    Pad(dt.hour, 2) \o <<":">> \o Pad(dt.minute, 2) \o <<":">> \o Pad(dt.second, 2) \o
    (IF dt.microsecond # 0 THEN <<".">> \o Pad(dt.microsecond, 6) ELSE <<>>) \o
    (IF dt.tz.k = "tz"
     THEN <<dt.tz.sign>> \o Pad(dt.tz.hh, 2) \o <<":">> \o Pad(dt.tz.mm, 2) ELSE <<>>)

\* dt.strftime('%Y-%m-%d %H:%M:%S'); the C library's %Y does not pad a year
\* below 1000.
StrftimeReadable(dt) ==
    Decimal(dt.year) \o <<"-">> \o Pad(dt.month, 2) \o <<"-">> \o Pad(dt.day, 2) \o <<" ">> \o
    Pad(dt.hour, 2) \o <<":">> \o Pad(dt.minute, 2) \o <<":">> \o Pad(dt.second, 2)

\* v.replace('Z', '+00:00')
RECURSIVE ReplaceZ(_)
ReplaceZ(s) ==
    IF s = <<>> THEN <<>>
    ELSE (IF Head(s) = "Z" THEN <<"+", "0", "0", ":", "0", "0">> ELSE <<Head(s)>>)
         \o ReplaceZ(Tail(s))

\* s[pos..] is [+-]HH:MM and ends the string.
IsIsoOffset(s, pos) ==
    /\ Len(s) = pos + 5
    /\ s[pos] \in {"+", "-"}
    /\ NumAt(s, pos + 1, 2) >= 0 /\ NumAt(s, pos + 1, 2) <= 23
    /\ s[pos + 3] = ":"
    /\ NumAt(s, pos + 4, 2) >= 0 /\ NumAt(s, pos + 4, 2) <= 59

\* datetime.fromisoformat(s) succeeds: YYYY-MM-DD, then optionally a separator
\* and HH:MM:SS, a fraction of 3 or 6 digits, and an offset.
IsIsoFormat(s) ==
    /\ Len(s) >= 10
    /\ NumAt(s, 1, 4) >= 1
    /\ s[5] = "-" /\ s[8] = "-"
    /\ NumAt(s, 6, 2) >= 1 /\ NumAt(s, 6, 2) <= 12
    /\ NumAt(s, 9, 2) >= 1 /\ NumAt(s, 9, 2) <= DaysInMonth(NumAt(s, 1, 4), NumAt(s, 6, 2))
    /\ \/ Len(s) = 10
       \/ /\ Len(s) >= 19
          /\ NumAt(s, 12, 2) >= 0 /\ NumAt(s, 12, 2) <= 23
          /\ s[14] = ":" /\ s[17] = ":"
          /\ NumAt(s, 15, 2) >= 0 /\ NumAt(s, 15, 2) <= 59
          /\ NumAt(s, 18, 2) >= 0 /\ NumAt(s, 18, 2) <= 59
          /\ LET frac == IF Len(s) >= 20 /\ s[20] = "."
                         THEN (IF NumAt(s, 21, 6) >= 0 THEN 7
                               ELSE IF NumAt(s, 21, 3) >= 0 THEN 4 ELSE -1)
                         ELSE 0
             IN  /\ frac >= 0
                 /\ (Len(s) = 19 + frac \/ IsIsoOffset(s, 20 + frac))

\* GMailData.validate_date_format
ValidateDateFormat(v) == IsIsoFormat(ReplaceZ(v))

ReadableFormat == <<"%Y", "-", "%m", "-", "%d", " ", "%H", ":", "%M", ":", "%S">>

\* A validator that accepts any readable date.
ValidateReadableDateAny(v) == TRUE

\* GMailDataExtended.validate_readable_date
ValidateReadableDate(v) == Strptime(v, ReadableFormat).k = "ret"

Str(v) == [k |-> "str", v |-> v]

\* A basic model that keeps the keys it has no field for.
GMailDataAllowsExtra(d) ==
    IF ValidateDateFormat(d.date) THEN Ret(d) ELSE Exc("ValidationError")

\* GMailData(**d): Ret(record) or Exc("ValidationError"); a key that is no
\* field of the model ('body') is ignored.
GMailData(d) ==
    IF ValidateDateFormat(d.date)
    THEN Ret([id |-> d.id, thread_id |-> d.thread_id, from_ |-> d.from_,
              subject |-> d.subject, date |-> d.date, snippet |-> d.snippet])
    ELSE Exc("ValidationError")

\* GMailDataExtended(**d); body is None unless the dict has one.
GMailDataExtended(d) ==
    IF ValidateDateFormat(d.date) /\ ValidateReadableDate(d.date_readable)
       /\ d.size_estimate >= 0
    THEN Ret([id |-> d.id, thread_id |-> d.thread_id, from_ |-> d.from_,
              subject |-> d.subject, date |-> d.date, snippet |-> d.snippet,
              to |-> d.to, date_readable |-> d.date_readable, labels |-> d.labels,
              size_estimate |-> d.size_estimate,
              body |-> IF "body" \in DOMAIN d THEN Str(d.body) ELSE None])
    ELSE Exc("ValidationError")

-----------------------------------------------------------------------------
(* GmailAPIClient._parse_email_data *)

\* The dict built from the header list: the last header of a name wins.
RECURSIVE HeaderGet(_, _, _)
HeaderGet(headers, name, default) ==
    IF headers = <<>> THEN default
    ELSE IF headers[Len(headers)][1] = name THEN headers[Len(headers)][2]
    ELSE HeaderGet(SubSeq(headers, 1, Len(headers) - 1), name, default)

\* Index of the first " (" in s, 0 if none.
RECURSIVE FindParen(_, _)
FindParen(s, i) ==
    IF i + 1 > Len(s) THEN 0
    ELSE IF s[i] = " " /\ s[i + 1] = "(" THEN i ELSE FindParen(s, i + 1)

\* date_str.split(' (')[0] if ' (' in date_str else date_str
BeforeParen(s) == IF FindParen(s, 1) # 0 THEN SubSeq(s, 1, FindParen(s, 1) - 1) ELSE s

\* '%a, %d %b %Y %H:%M:%S %z'
GmailDateFormat ==
    <<"%a", ",", " ", "%d", " ", "%b", " ", "%Y", " ", "%H", ":", "%M", ":", "%S",
      " ", "%z">>

\* A parser that falls back to the epoch, not to the current time.
ParsedDateEpochFallback(date_str, t) ==
    LET r == Strptime(BeforeParen(date_str), GmailDateFormat)
    IN  IF r.k = "ret" THEN r.v ELSE DateTime(1970, 1, 1, 0, 0, 0, 0, NoTz)

\* The date the record gets: the parsed Date header, or datetime.now() when
\* strptime raises.
ParsedDate(date_str, t) ==
    LET r == Strptime(BeforeParen(date_str), GmailDateFormat)
    IN  IF r.k = "ret" THEN r.v ELSE ClockAt(t)

Unknown   == <<"Unknown">>
NoSubject == <<"No Subject">>

\* The part of _parse_email_data after the fetch: details is the fetched
\* message (payload is None when the key is missing).
ParseDetails(id, details, incl_body, basic, t) ==
    IF details.payload = None THEN Exc("KeyError")
    ELSE
    LET headers == details.payload.headers
        date    == ParsedDate(HeaderGet(headers, "Date", <<>>), t)
        body    == IF incl_body THEN ExtractEmailBody(details.payload) ELSE Ret(<<>>)
        base    == [id |-> id, thread_id |-> details.threadId,
                    from_ |-> HeaderGet(headers, "From", Unknown),
                    subject |-> HeaderGet(headers, "Subject", NoSubject),
                    date |-> IsoFormat(date), snippet |-> details.snippet]
        more    == [to |-> HeaderGet(headers, "To", Unknown),
                    date_readable |-> StrftimeReadable(date),
                    labels |-> details.labelIds,
                    size_estimate |-> details.sizeEstimate]
        dict    == IF basic THEN base ELSE base @@ more
        full    == IF incl_body
                   THEN dict @@ [body |-> IF body.v # <<>> THEN CleanHtml(body.v) ELSE <<>>]
                   ELSE dict
    IN  IF body.k = "raise" THEN body
        ELSE IF basic THEN GMailData(full) ELSE GMailDataExtended(full)

\* _parse_email_data(message, include_body, basic_data) at tick t, the
\* provider answering the messages().get request with reply.
ParseEmailData(id, reply, incl_body, basic, t) ==
    IF reply.k = "raise" THEN reply
    ELSE ParseDetails(id, reply.v, incl_body, basic, t)

-----------------------------------------------------------------------------
(* GmailAPIClient.get_emails_by_date_range *)

\* Most messages a listing names.
MaxListed == 2

MessageIds == {"m1", "m2"}

\* "Mon, 01 Jan 2024 10:00:00 +0000"
GoodDate ==
    <<"Mon", ",", " ", "0", "1", " ", "Jan", " ", "2", "0", "2", "4", " ",
      "1", "0", ":", "0", "0", ":", "0", "0", " ", "+", "0", "0", "0", "0">>

\* "Tue, 2 Jan 2024 9:05:00 -0530 (PST)"
ParenDate ==
    <<"Tue", ",", " ", "2", " ", "Jan", " ", "2", "0", "2", "4", " ",
      "9", ":", "0", "5", ":", "0", "0", " ", "-", "0", "5", "3", "0",
      " ", "(", "P", "S", "T", ")">>

\* "Mon, 01 Jan 2024 10:00:00 GMT": a zone name where %z wants an offset.
NamedZoneDate ==
    <<"Mon", ",", " ", "0", "1", " ", "Jan", " ", "2", "0", "2", "4", " ",
      "1", "0", ":", "0", "0", ":", "0", "0", " ", "GMT">>

\* "Mon, 01 Jan 0999 10:00:00 +0000": a year strftime writes in three digits.
EarlyDate ==
    <<"Mon", ",", " ", "0", "1", " ", "Jan", " ", "0", "9", "9", "9", " ",
      "1", "0", ":", "0", "0", ":", "0", "0", " ", "+", "0", "0", "0", "0">>

Details(threadId, payload, snippet, labelIds, sizeEstimate) ==
    [threadId |-> threadId, payload |-> payload, snippet |-> snippet,
     labelIds |-> labelIds, sizeEstimate |-> sizeEstimate]

Payload(headers, part) == [headers |-> headers] @@ part

\* Messages the provider may hold.
SampleDetails ==
    { \* all headers, a well-formed date, a plain-text body
      Details(Str(<<"t1">>),
              Payload(<< <<"From", <<"ann@x">> >>, <<"To", <<"bob@x">> >>,
                         <<"Subject", <<"Hello">> >>, <<"Date", GoodDate>> >>,
                      Part("text/plain", "SGk=", <<>>)),
              <<"Hi">>, <<"INBOX">>, 10),
      \* a date with a zone name in parentheses, a repeated header, HTML before
      \* plain text
      Details(Str(<<"t2">>),
              Payload(<< <<"Subject", <<"first">> >>, <<"Date", ParenDate>>,
                         <<"Subject", <<"last">> >> >>,
                      Part("multipart/alternative", "",
                           << Part("text/html", "PGI-SGk8L2I-", <<>>),
                              Part("text/plain", "SGk=", <<>>) >>)),
              <<>>, <<"INBOX", "UNREAD">>, 20),
      \* no Date header, no thread, no body
      Details(None,
              Payload(<< <<"From", <<"ann@x">> >> >>, Part("multipart/mixed", "", <<>>)),
              <<"Hi">>, <<>>, 0),
      \* a date strptime refuses
      Details(Str(<<"t1">>),
              Payload(<< <<"Date", NamedZoneDate>> >>,
                      Part("text/html", "PGI-SGk8L2I-", <<>>)),
              <<"Hi">>, <<"INBOX">>, 30),
      \* body data that is no base64
      Details(Str(<<"t1">>),
              Payload(<< <<"Date", GoodDate>> >>, Part("text/plain", "QQ", <<>>)),
              <<"Hi">>, <<"INBOX">>, 10),
      \* a negative size estimate, and a date strptime refuses with or without
      \* its " (UTC)"
      Details(Str(<<"t1">>),
              Payload(<< <<"Date", NamedZoneDate \o <<" ", "(", "U", "T", "C", ")">> >> >>,
                      Part("text/plain", "SGk=", <<>>)),
              <<"Hi">>, <<"INBOX">>, -1),
      \* a date before the year 1000
      Details(Str(<<"t3">>),
              Payload(<< <<"Date", EarlyDate>> >>, Part("text/plain", "SGk=", <<>>)),
              <<"Hi">>, <<"INBOX">>, 10),
      \* no payload at all
      Details(Str(<<"t1">>), None, <<"Hi">>, <<"INBOX">>, 10) }

\* What the provider may answer to a messages().get request: a message, an
\* error response (HttpError), or no answer (a transport error).
FetchReplies == {Ret(d) : d \in SampleDetails} \cup {Exc("HttpError"), Exc("TimeoutError")}

NoMessagesKey == [k |-> "nokey"]

\* What the provider may answer to the messages().list request: a result
\* without 'messages', with a list of message ids, or an error.
ListReplies ==
    {Ret(NoMessagesKey)} \cup
    {Ret(Str(ids)) : ids \in SeqsUpTo(MessageIds, MaxListed)} \cup
    {Exc("HttpError"), Exc("TimeoutError")}

\* get_emails_by_date_range(start, end, include_body=b, basic_data=d) is called.
Call(b, d) ==
    /\ pc \in {"idle", "returned", "raised"}
    /\ pc' = "listing"
    /\ include_body' = b
    /\ basic_data' = d
    /\ results' = None /\ messages' = <<>> /\ idx' = 0 /\ emails' = <<>>
    /\ parsing_errors' = 0 /\ requests' = <<>> /\ outcomes' = <<>>
    /\ result' = None /\ raised' = None
    /\ UNCHANGED now

\* A listing step that reads results['messages'] without a default.
AfterListNoDefault(reply) ==
    IF reply.k = "raise"
    THEN IF reply.exc = "HttpError"
         THEN [pc |-> "returned", messages |-> <<>>, result |-> Ret(<<>>), raised |-> None]
         ELSE [pc |-> "raised", messages |-> <<>>, result |-> None, raised |-> reply]
    ELSE IF reply.v.k = "nokey"
    THEN [pc |-> "raised", messages |-> <<>>, result |-> None, raised |-> Exc("KeyError")]
    ELSE IF reply.v.v = <<>>
    THEN [pc |-> "returned", messages |-> <<>>, result |-> Ret(<<>>), raised |-> None]
    ELSE [pc |-> "loop", messages |-> reply.v.v, result |-> None, raised |-> None]

\* How the call goes on after the listing request was answered with reply:
\* the loop, an empty list returned, or the exception out of the call.
AfterList(reply) ==
    IF reply.k = "raise"
    THEN IF reply.exc = "HttpError"
         THEN [pc |-> "returned", messages |-> <<>>, result |-> Ret(<<>>), raised |-> None]
         ELSE [pc |-> "raised", messages |-> <<>>, result |-> None, raised |-> reply]
    ELSE IF reply.v.k = "nokey" \/ reply.v.v = <<>>
    THEN [pc |-> "returned", messages |-> <<>>, result |-> Ret(<<>>), raised |-> None]
    ELSE [pc |-> "loop", messages |-> reply.v.v, result |-> None, raised |-> None]

\* The listing request and what follows it up to the loop.
List(reply) ==
    /\ pc = "listing"
    /\ requests' = Append(requests, [op |-> "list"])
    /\ results' = reply
    /\ LET next == AfterList(reply)
       IN  /\ pc' = next.pc
           /\ messages' = next.messages
           /\ result' = next.result
           /\ raised' = next.raised
    /\ UNCHANGED <<include_body, basic_data, idx, emails, parsing_errors, outcomes, now>>

\* The list and the error count after one iteration's _parse_email_data ended
\* with parsed: appended, or caught by "except Exception" and counted.
AfterParseStopsAtError(parsed, list, errors, i, n) ==
    IF parsed.k = "ret"
    THEN [emails |-> Append(list, parsed.v), parsing_errors |-> errors, idx |-> i + 1]
    ELSE [emails |-> list, parsing_errors |-> errors + 1, idx |-> n]

AfterParse(parsed, list, errors, i, n) ==
    IF parsed.k = "ret"
    THEN [emails |-> Append(list, parsed.v), parsing_errors |-> errors, idx |-> i + 1]
    ELSE [emails |-> list, parsing_errors |-> errors + 1, idx |-> i + 1]

\* The fetch requests an iteration issues for the message id.
FetchRequestsTwice(id) == <<[op |-> "get", id |-> id], [op |-> "get", id |-> id]>>

FetchRequests(id) == <<[op |-> "get", id |-> id]>>

\* _parse_email_data on every message id, reply, pair of flags and tick of the
\* model, as a table (computed once).
ParseEmailDataTable ==
    Enumerated([a \in MessageIds \X FetchReplies \X BOOLEAN \X BOOLEAN \X (0..MaxTicks) |->
                  ParseEmailData(a[1], a[2], a[3], a[4], a[5])])

\* One iteration of the loop over messages: the provider answers the fetch
\* with reply, the wall clock has advanced by tick.
ProcessMessage(reply, tick) ==
    /\ pc = "loop"
    /\ idx < Len(messages)
    /\ now + tick <= MaxTicks
    /\ now' = now + tick
    /\ LET id     == messages[idx + 1]
           parsed == ParseEmailDataTable[<<id, reply, include_body, basic_data, now'>>]
           next   == AfterParse(parsed, emails, parsing_errors, idx, Len(messages))
       IN  /\ requests' = requests \o FetchRequests(id)
           /\ outcomes' = Append(outcomes, [id |-> id, reply |-> reply, at |-> now',
                                            parsed |-> parsed])
           /\ emails' = next.emails
           /\ parsing_errors' = next.parsing_errors
           /\ idx' = next.idx
    /\ UNCHANGED <<pc, include_body, basic_data, results, messages, result, raised>>

\* After the loop: return emails.
Return ==
    /\ pc = "loop"
    /\ idx = Len(messages)
    /\ pc' = "returned"
    /\ result' = Ret(emails)
    /\ UNCHANGED <<include_body, basic_data, results, messages, idx, emails,
                   parsing_errors, requests, outcomes, raised, now>>

-----------------------------------------------------------------------------
(* Idle values of the components a specification does not exercise *)

BodyIdle == message_payload = None /\ extracted_body = NotCalled
DateIdle == date_string = <<>> /\ ensured = NotCalled
AuthIdle ==
    /\ auth_pc = "done" /\ token_file = Absent /\ credentials_file = FALSE
    /\ provider_auth = [refresh_ok |-> TRUE, flow_ok |-> TRUE, flow_refresh_token |-> TRUE]
    /\ service = None /\ auth_raised = None /\ auth_log = <<>>
CallIdle ==
    /\ pc = "idle" /\ include_body = FALSE /\ basic_data = TRUE
    /\ results = None /\ messages = <<>> /\ idx = 0 /\ emails = <<>>
    /\ parsing_errors = 0
    /\ requests = <<>> /\ outcomes = <<>> /\ result = None /\ raised = None
    /\ now = 0

-----------------------------------------------------------------------------
(* Specification of _clean_html on every input string of the bounded set *)

InitClean ==
    /\ html_content \in HtmlInputs
    /\ clean_text = NotCalled
    /\ BodyIdle /\ DateIdle /\ AuthIdle /\ CallIdle

NextClean == CallCleanHtml /\ UNCHANGED <<bodyVars, dateVars, authVars, callVars>>

SpecClean == InitClean /\ [][NextClean]_vars

\* The string has a tag: '<', one or more characters other than '>', '>'.
HasTag(s) ==
    \E i \in 1..Len(s) : \E j \in (i + 2)..Len(s) :
        /\ s[i] = "<"
        /\ s[j] = ">"
        /\ \A n \in (i + 1)..(j - 1) : s[n] # ">"

HasSpaceRun(s) == \E i \in 1..(Len(s) - 1) : s[i] = " " /\ s[i + 1] = " "

\* Line boundaries: before the string, each newline, after the string.
LineBounds(s) == {0, Len(s) + 1} \cup {i \in 1..Len(s) : s[i] = "\n"}

\* Two consecutive lines are both empty or whitespace-only.
HasBlankRun(s) ==
    \E a, b, c \in LineBounds(s) :
        /\ a < b /\ b < c
        /\ \A n \in (a + 1)..(c - 1) : IsSpace(s[n])

IsTrimmed(s) == s = <<>> \/ (~IsSpace(s[1]) /\ ~IsSpace(s[Len(s)]))

\* C10: whatever the input, the output of _clean_html has no tag, no run of
\* two or more spaces, no run of blank or whitespace-only lines longer than
\* one blank line, and no leading or trailing whitespace; the example
\* "<p>Hello</p>\n\n\n<b>World</b>" yields "Hello\n\nWorld" and the empty
\* input yields the empty string.
C10_CleanHtmlOutput ==
    clean_text # NotCalled =>
        /\ ~HasTag(clean_text.v)
        /\ ~HasSpaceRun(clean_text.v)
        /\ ~HasBlankRun(clean_text.v)
        /\ IsTrimmed(clean_text.v)
        /\ (html_content = HtmlExample =>
               clean_text.v = <<"H", "e", "l", "l", "o", "\n", "\n",
                                "W", "o", "r", "l", "d">>)
        /\ (html_content = <<>> => clean_text.v = <<>>)

\* An input with a tag, a run of spaces, a run of blank lines and leading
\* whitespace has been cleaned.
C10_Witness ==
    /\ clean_text # NotCalled
    /\ HasTag(html_content)
    /\ \E i \in 1..Len(html_content) : html_content[i] = "\n"
    /\ html_content # <<>> /\ IsSpace(html_content[1])
    /\ clean_text.v # <<>>

-----------------------------------------------------------------------------
(* Specification of _extract_email_body on every payload of the bounded set *)

InitBody ==
    /\ message_payload \in Payloads
    /\ extracted_body = NotCalled
    /\ CleanIdle /\ DateIdle /\ AuthIdle /\ CallIdle

NextBody ==
    CallExtractEmailBody /\ UNCHANGED <<cleanVars, dateVars, authVars, callVars>>

SpecBody == InitBody /\ [][NextBody]_vars

\* The part and all the parts below it.
RECURSIVE PartsOf(_)
PartsOf(part) ==
    {part} \cup UNION {PartsOf(part.parts[i]) : i \in DOMAIN part.parts}

\* A part of the given type whose data decodes to a non-empty body.
HasBody(part, mimeType) ==
    /\ part.mimeType = mimeType
    /\ part.data # ""
    /\ B64Decode(part.data).k = "ret"
    /\ B64Decode(part.data).v # <<>>

\* Some part has a text/plain and a text/html subpart, both with a body.
HasPlainAndHtmlSiblings(payload) ==
    \E p \in PartsOf(payload) : \E i, j \in DOMAIN p.parts :
        HasBody(p.parts[i], "text/plain") /\ HasBody(p.parts[j], "text/html")

IsBodyOf(body, payload, mimeType) ==
    \E p \in PartsOf(payload) : HasBody(p, mimeType) /\ B64Decode(p.data) = body

\* C2: when a text/plain and a text/html part with non-empty data are
\* siblings, in whatever order, _extract_email_body returns the body of a
\* text/plain part; an HTML body is returned only when no plain-text part is
\* found.
C2_PlainPreferredOverHtml ==
    extracted_body.k = "ret" =>
        /\ (HasPlainAndHtmlSiblings(message_payload) =>
               IsBodyOf(extracted_body, message_payload, "text/plain"))
        /\ (IsBodyOf(extracted_body, message_payload, "text/html") =>
               ~\E p \in PartsOf(message_payload) : HasBody(p, "text/plain"))

-----------------------------------------------------------------------------
(* Specification of ensure_datetime on every string of the bounded set *)

InitDate ==
    /\ date_string \in DateStrings
    /\ ensured = NotCalled
    /\ CleanIdle /\ BodyIdle /\ AuthIdle
    /\ pc = "idle" /\ include_body = FALSE /\ basic_data = TRUE
    /\ results = None /\ messages = <<>> /\ idx = 0 /\ emails = <<>>
    /\ parsing_errors = 0
    /\ requests = <<>> /\ outcomes = <<>> /\ result = None /\ raised = None
    /\ now \in 0..MaxTicks

NextDate ==
    CallEnsureDatetime /\ UNCHANGED <<cleanVars, bodyVars, authVars, callVars>>

SpecDate == InitDate /\ [][NextDate]_vars

\* The order the claim gives: Y-m-d, m/d/Y, d/m/Y, 'Y-m-d H:M:S', 'm/d/Y H:M:S'.
YmdFormat == <<"%Y", "-", "%m", "-", "%d">>
MdyFormat == <<"%m", "/", "%d", "/", "%Y">>
DmyFormat == <<"%d", "/", "%m", "/", "%Y">>
HmsFormat == <<" ", "%H", ":", "%M", ":", "%S">>
ClaimedOrder ==
    <<YmdFormat, MdyFormat, DmyFormat, YmdFormat \o HmsFormat, MdyFormat \o HmsFormat>>

Parses(s, fmt) == Strptime(s, fmt).k = "ret"

\* C5: for an input that is none of the five keywords, ensure_datetime returns
\* the result of the first format, in the order Y-m-d, m/d/Y, d/m/Y,
\* 'Y-m-d H:M:S', 'm/d/Y H:M:S', that parses (a string valid both as m/d/Y and
\* as d/m/Y is read as month/day), and raises ValueError exactly when no
\* format parses.
C5_FirstParsingFormatWins ==
    (ensured # NotCalled /\ date_string \notin DOMAIN KeywordDays) =>
        /\ \A i \in 1..5 :
             (Parses(date_string, ClaimedOrder[i])
                /\ \A j \in 1..(i - 1) : ~Parses(date_string, ClaimedOrder[j]))
             => ensured = Strptime(date_string, ClaimedOrder[i])
        /\ (Parses(date_string, MdyFormat) /\ Parses(date_string, DmyFormat) =>
              ensured = Strptime(date_string, MdyFormat))
        /\ (ensured = Exc("ValueError") <=>
              \A i \in 1..5 : ~Parses(date_string, ClaimedOrder[i]))

\* A string that is a date both month-first and day-first, with different
\* readings, has been resolved.
C5_Witness ==
    /\ ensured # NotCalled
    /\ Parses(date_string, MdyFormat) /\ Parses(date_string, DmyFormat)
    /\ Strptime(date_string, MdyFormat) # Strptime(date_string, DmyFormat)
    /\ ensured.k = "ret" /\ ensured.v.month = 1 /\ ensured.v.day = 12

-----------------------------------------------------------------------------
(* Specification of the client's construction, start after start *)

InitAuth ==
    /\ auth_pc = "new"
    /\ token_file \in {Absent, Corrupt} \cup
         {ToJson(Creds(0, t, e, r)) : t \in BOOLEAN, e \in BOOLEAN, r \in BOOLEAN}
    /\ credentials_file \in BOOLEAN
    /\ provider_auth \in AuthAnswers
    /\ service = None /\ auth_raised = None /\ auth_log = <<>>
    /\ CleanIdle /\ BodyIdle /\ DateIdle /\ CallIdle

NextAuth ==
    \/ Construct /\ UNCHANGED <<cleanVars, bodyVars, dateVars, callVars>>
    \/ Restart /\ UNCHANGED <<cleanVars, bodyVars, dateVars, callVars>>

SpecAuth == InitAuth /\ [][NextAuth]_vars

InLog(log, op) == \E i \in DOMAIN log : log[i] = op

Before(log, a, b) ==
    \A j \in DOMAIN log : log[j] = b => \E i \in 1..(j - 1) : log[i] = a

\* C6: in a construction the token file is read only if it exists; it is
\* written if and only if the credentials were refreshed or created by the
\* consent flow in this construction; a valid loaded token leaves it
\* unchanged; and after a successful refresh or creation it holds the new
\* credentials before the service handle is built.
C6_TokenFileReadIfPresentWrittenIfNew ==
    [][ (auth_pc = "new" /\ auth_pc' # "new") =>
          LET minted == \/ (InLog(auth_log', "refresh") /\ auth_raised' # Exc("RefreshError"))
                        \/ (InLog(auth_log', "consent flow") /\ auth_raised' # Exc("FlowError"))
          IN  /\ InLog(auth_log', "read token_file") => token_file # Absent
              /\ InLog(auth_log', "write token_file") <=> minted
              /\ token_file' # token_file <=> minted
              /\ (token_file.k = "json" /\ Valid(token_file.fields)) =>
                    (token_file' = token_file /\ ~InLog(auth_log', "write token_file"))
              /\ minted =>
                    /\ service' # None
                    /\ token_file' = ToJson(service'.credentials)
                    /\ GenOf(token_file') > GenOf(token_file)
                    /\ Before(auth_log', "write token_file", "build")
                    /\ InLog(auth_log', "build")
      ]_vars

\* A construction refreshed an expired token and saved it: the token file
\* holds the credentials of the service handle, of a later generation.
C6_Witness ==
    /\ auth_pc = "done"
    /\ InLog(auth_log, "refresh")
    /\ InLog(auth_log, "write token_file")
    /\ service # None
    /\ token_file = ToJson(service.credentials)
    /\ GenOf(token_file) = 2

\* The claim's "needs new credentials": no token file, or a loaded token that
\* is invalid and is not expired or has no refresh token.
NeedsNewCredentials(text) ==
    \/ text = Absent
    \/ /\ text.k = "json"
       /\ ~Valid(text.fields)
       /\ (~text.fields.expired \/ ~text.fields.refresh_token)

\* C7: a construction that needs new credentials while the credentials file
\* does not exist fails with FileNotFoundError before any consent flow is
\* started, writes no token file and creates no service handle; with a valid
\* or refreshable loaded token a missing credentials file is not an error.
C7_MissingCredentialsFile ==
    [][ (auth_pc = "new" /\ auth_pc' # "new" /\ ~credentials_file) =>
          /\ NeedsNewCredentials(token_file) =>
                /\ auth_pc' = "failed"
                /\ auth_raised' = Exc("FileNotFoundError")
                /\ ~InLog(auth_log', "consent flow")
                /\ ~InLog(auth_log', "write token_file")
                /\ token_file' = token_file
                /\ service' = None
          /\ (token_file.k = "json" /\ ~NeedsNewCredentials(token_file)) =>
                auth_raised' # Exc("FileNotFoundError")
      ]_vars

\* A construction found a token that is neither valid nor refreshable and no
\* credentials file, and failed.
C7_Witness ==
    /\ auth_pc = "failed"
    /\ auth_raised = Exc("FileNotFoundError")
    /\ token_file.k = "json"
    /\ NeedsNewCredentials(token_file)
    /\ ~credentials_file

-----------------------------------------------------------------------------
(* Specification of the retrieval: calls of get_emails_by_date_range, one    *)
(* after the other, against a provider that answers each request as it likes *)

Init ==
    /\ CallIdle
    /\ CleanIdle /\ BodyIdle /\ DateIdle /\ AuthIdle

Next ==
    \/ \E b \in BOOLEAN, d \in BOOLEAN :
         Call(b, d) /\ UNCHANGED <<cleanVars, bodyVars, dateVars, authVars>>
    \/ \E reply \in ListReplies :
         List(reply) /\ UNCHANGED <<cleanVars, bodyVars, dateVars, authVars>>
    \/ \E reply \in FetchReplies, tick \in {0, 1} :
         ProcessMessage(reply, tick) /\ UNCHANGED <<cleanVars, bodyVars, dateVars, authVars>>
    \/ Return /\ UNCHANGED <<cleanVars, bodyVars, dateVars, authVars>>

Spec == Init /\ [][Next]_vars

\* The records of the iterations whose _parse_email_data returned, in order.
RECURSIVE Succeeded(_)
Succeeded(h) ==
    IF h = <<>> THEN <<>>
    ELSE (IF Head(h).parsed.k = "ret" THEN <<Head(h).parsed.v>> ELSE <<>>)
         \o Succeeded(Tail(h))

Failures(h) == Cardinality({i \in DOMAIN h : h[i].parsed.k = "raise"})

\* The listing named at least one message.
Listed == results.k = "ret" /\ results.v.k = "str" /\ results.v.v # <<>>

\* C1: whatever the listing and whichever messages fail to be fetched or
\* parsed, get_emails_by_date_range does not raise, attempts every listed
\* message, and returns exactly the records of the messages that succeeded,
\* in listing order; counted errors plus returned records are the listed
\* messages.
C1_PerMessageFailuresSkipped ==
    Listed =>
        /\ pc \in {"loop", "returned"}
        /\ raised = None
        /\ messages = results.v.v
        /\ emails = Succeeded(outcomes)
        /\ parsing_errors = Failures(outcomes)
        /\ \A i \in DOMAIN outcomes : outcomes[i].id = messages[i]
        /\ pc = "returned" =>
              /\ Len(outcomes) = Len(messages)
              /\ result = Ret(Succeeded(outcomes))
              /\ parsing_errors + Len(result.v) = Len(messages)

\* A call returned the record of a second message after the fetch of the
\* first one had failed.
C1_Witness ==
    /\ pc = "returned"
    /\ Len(messages) = 2
    /\ outcomes[1].reply = Exc("TimeoutError")
    /\ outcomes[2].parsed.k = "ret"
    /\ result = Ret(<<outcomes[2].parsed.v>>)
    /\ parsing_errors = 1

NoFetchRequest == \A i \in DOMAIN requests : requests[i].op # "get"

\* C3: a transport or provider error raised by the listing call does not come
\* out of get_emails_by_date_range: the call makes no per-message fetch and
\* returns an empty list.
C3_ListingErrorReturnsEmpty ==
    (pc # "listing" /\ results.k = "raise") =>
        /\ pc = "returned"
        /\ raised = None
        /\ result = Ret(<<>>)
        /\ NoFetchRequest

\* C8: when the listing has no 'messages' key or an empty list, the call
\* returns an empty list, does not raise, and issues no per-message fetch.
C8_NoMatchReturnsEmpty ==
    (results.k = "ret" /\ (results.v.k = "nokey" \/ results.v.v = <<>>)) =>
        /\ pc = "returned"
        /\ raised = None
        /\ result = Ret(<<>>)
        /\ requests = <<[op |-> "list"]>>

\* A listing without the 'messages' key was answered with an empty list.
C8_Witness ==
    /\ results = Ret(NoMessagesKey)
    /\ pc = "returned"
    /\ result = Ret(<<>>)

\* C9: a call issues exactly one listing request, then exactly one fetch
\* request per listed message, in listing order, each after the message
\* before it was handled; no request is repeated, and a failed fetch does not
\* stop the fetches of the later messages.
C9_OneListThenOneFetchPerMessage ==
    /\ pc \in {"idle", "listing"} => requests = <<>>
    /\ pc \in {"loop", "returned", "raised"} =>
          /\ Len(requests) = 1 + idx
          /\ requests[1] = [op |-> "list"]
          /\ \A i \in 1..idx : requests[i + 1] = [op |-> "get", id |-> messages[i]]
          /\ Len(outcomes) = idx
          /\ idx <= Len(messages)
    /\ pc = "returned" => idx = Len(messages)

\* A call ended after a failed fetch of the first message and a fetch of the
\* second.
C9_Witness ==
    /\ pc = "returned"
    /\ messages = <<"m2", "m1">>
    /\ outcomes[1].reply = Exc("HttpError")
    /\ requests = <<[op |-> "list"], [op |-> "get", id |-> "m2"],
                    [op |-> "get", id |-> "m1"]>>

\* The message has a payload whose Date header is absent or, without the
\* text from " (" on, is refused by strptime.
DateUnusable ==
    Enumerated([d \in SampleDetails |->
        /\ d.payload # None
        /\ Strptime(BeforeParen(HeaderGet(d.payload.headers, "Date", <<>>)),
                    GmailDateFormat).k = "raise"])

\* What _parse_email_data does with the same message once its Date header is
\* a well-formed one: "ret" or "raise".
WithGoodDate ==
    Enumerated([a \in SampleDetails \X BOOLEAN \X BOOLEAN |->
        IF a[1].payload = None THEN "raise"
        ELSE ParseDetails("m1",
                 [a[1] EXCEPT !.payload.headers = Append(@, <<"Date", GoodDate>>)],
                 a[2], a[3], 0).k])

NowIso      == Enumerated([t \in 0..MaxTicks |-> IsoFormat(ClockAt(t))])
NowReadable == Enumerated([t \in 0..MaxTicks |-> StrftimeReadable(ClockAt(t))])

\* C4: a fetched message whose Date header is absent or cannot be parsed does
\* not make _parse_email_data raise (it raises only if it would with a
\* well-formed date too); the record, basic or extended, carries the
\* wall-clock time at parsing.
C4_DateFallbackIsNow ==
    \A i \in DOMAIN outcomes :
        (outcomes[i].reply.k = "ret" /\ DateUnusable[outcomes[i].reply.v]) =>
            /\ outcomes[i].parsed.k =
                 WithGoodDate[<<outcomes[i].reply.v, include_body, basic_data>>]
            /\ outcomes[i].parsed.k = "ret" =>
                 /\ outcomes[i].parsed.v.date = NowIso[outcomes[i].at]
                 /\ ~basic_data =>
                      outcomes[i].parsed.v.date_readable = NowReadable[outcomes[i].at]

\* An extended record was built, after the clock had advanced, for a message
\* whose Date header strptime refuses.
C4_Witness ==
    /\ ~basic_data
    /\ \E i \in DOMAIN outcomes :
         /\ outcomes[i].reply.k = "ret"
         /\ outcomes[i].reply.v.payload # None
         /\ HeaderGet(outcomes[i].reply.v.payload.headers, "Date", <<>>) = NamedZoneDate
         /\ outcomes[i].at = 1
         /\ outcomes[i].parsed.k = "ret"
         /\ outcomes[i].parsed.v.date = IsoFormat(ClockAt(1))

BasicFields == {"id", "thread_id", "from_", "subject", "date", "snippet"}

\* The body a message's part tree gives once cleaned: the empty string when
\* no part has a body.
CleanedBody ==
    Enumerated([d \in {x \in SampleDetails : x.payload # None} |->
        LET body == ExtractEmailBody(d.payload)
        IN  IF body.k = "raise" THEN body
            ELSE IF body.v = <<>> THEN Ret(<<>>) ELSE Ret(CleanHtml(body.v))])

HasReadableForm(s) ==
    /\ Len(s) = 19
    /\ \A i \in {1, 2, 3, 4, 6, 7, 9, 10, 12, 13, 15, 16, 18, 19} : IsDigit(s[i])
    /\ s[5] = "-" /\ s[8] = "-" /\ s[11] = " " /\ s[14] = ":" /\ s[17] = ":"

\* The readable date shows the year, month, day, hour, minute and second that
\* the ISO date shows.
SameFields(date, readable) ==
    /\ Len(date) >= 19
    /\ readable = SubSeq(date, 1, 10) \o <<" ">> \o SubSeq(date, 12, 19)

\* Whether fromisoformat accepts it, for the ISO form of every timestamp a
\* message can get from its Date header or from the clock.
IsoParses ==
    Enumerated([s \in {IsoFormat(ParsedDate(HeaderGet(d.payload.headers, "Date", <<>>), t)) :
                          d \in {x \in SampleDetails : x.payload # None},
                          t \in 0..MaxTicks} |->
        IsIsoFormat(s)])

RecordInvariant(record) ==
    /\ record.date \in DOMAIN IsoParses
    /\ IsoParses[record.date]
    /\ "date_readable" \in DOMAIN record =>
          /\ HasReadableForm(record.date_readable)
          /\ SameFields(record.date, record.date_readable)

\* The readable date of a message parsed at tick t, from its Date header or
\* from the clock.
ReadableOf ==
    Enumerated([a \in {x \in SampleDetails : x.payload # None} \X (0..MaxTicks) |->
        StrftimeReadable(ParsedDate(HeaderGet(a[1].payload.headers, "Date", <<>>), a[2]))])

\* C12: every record collected or returned by get_emails_by_date_range has a
\* date that parses as ISO-8601 and, in extended mode, a date_readable of the
\* form YYYY-MM-DD HH:MM:SS showing the same fields as date; a message whose
\* readable date has not that form gives no record: construction fails and
\* the message is counted as an error.
C12_RecordDateInvariants ==
    /\ \A i \in DOMAIN emails : RecordInvariant(emails[i])
    /\ (pc = "returned" /\ result.k = "ret") =>
           \A i \in DOMAIN result.v : RecordInvariant(result.v[i])
    /\ \A i \in DOMAIN outcomes :
           (/\ ~basic_data
            /\ outcomes[i].reply.k = "ret"
            /\ outcomes[i].reply.v.payload # None
            /\ ~HasReadableForm(ReadableOf[<<outcomes[i].reply.v, outcomes[i].at>>]))
           => outcomes[i].parsed.k = "raise"

\* An extended call skipped a message dated in the year 999 and returned the
\* record of a message whose date came from the clock.
C12_Witness ==
    /\ pc = "returned" /\ ~basic_data
    /\ Len(outcomes) = 2
    /\ \A i \in 1..2 : outcomes[i].reply.k = "ret" /\ outcomes[i].reply.v.payload # None
    /\ HeaderGet(outcomes[1].reply.v.payload.headers, "Date", <<>>) = EarlyDate
    /\ outcomes[1].parsed = Exc("ValidationError")
    /\ HeaderGet(outcomes[2].reply.v.payload.headers, "Date", <<>>) = <<>>
    /\ parsing_errors = 1
    /\ Len(result.v) = 1
    /\ result.v[1].date = IsoFormat(ClockAt(outcomes[2].at))
    /\ RecordInvariant(result.v[1])

=============================================================================
